---- MODULE Spec2Model ----
(***************************************************************************)
(* Order ledger, payment tracker and order-payment workflow of the Kuku    *)
(* Yetu REST service.  The repository holds three iterations of the same   *)
(* service: src/server.js (administrator-gated, with the gateway webhook), *)
(* src/unnamed/part_000 (administrator-gated, validating) and              *)
(* src/unnamed/part_001 (public, validating).  The variable `variant`      *)
(* fixes which iteration runs.  Every handler is an async function: it     *)
(* runs without interruption up to its next `await pool.query(...)`, and   *)
(* other requests' queries may reach the store between two of its queries. *)
(* One action below is one such uninterrupted stretch: a query together    *)
(* with the synchronous code that follows it.                              *)
(***************************************************************************)
EXTENDS Integers, Sequences, FiniteSets, TLC

VARIABLES
    variant,    \* which iteration of the service runs
    now,        \* Date.now() / CURRENT_TIMESTAMP, in milliseconds
    orders,     \* table orders: order id -> row
    payments,   \* table payments: payment id -> row
    products,   \* table products: product id -> row
    admin_users,\* table admin_users: its one row, the default administrator
    issued,     \* how many tokens uuidv4() has made for logins
    req         \* the requests being handled: slot -> handler activation

vars ==
    <<variant, now, orders, payments, products, admin_users, issued, req>>

----------------------------------------------------------------------------
\* Bounds of the model.

\* Requests handled at the same time.
NumSlots == 2
\* The clock runs from 1 to MaxTime.
MaxTime == 2
\* Math.random() yields one of 1..MaxRand.
MaxRand == 2
\* Rows the orders table may hold.
MaxOrders == 2
\* Rows the payments table may hold.
MaxPayments == 2
\* An order's total is one of 1..MaxTotal (in units of the currency).
MaxTotal == 2
\* Logins that reach the making of a token.
MaxLogins == 2

Slots == 1..NumSlots
Rands == 1..MaxRand
PaymentIds == 1..MaxPayments
Totals == 1..MaxTotal

----------------------------------------------------------------------------
\* Values.

Variants == {"server", "part_000", "part_001"}

\* SQL NULL in a TIMESTAMP column (every real timestamp is >= 1).
Null == 0

\* estimatedDelivery = new Date(Date.now() + 45 * 60 * 1000)
EstimatedDeliveryOffset == 45 * 60 * 1000

\* `ORD-${Date.now()}-${Math.random().toString(36).substr(2, 9)}`
OrderIdOf(t, k) == <<t, k>>

\* `TXN-${Date.now()}-${Math.random().toString(36).substr(2, 9)}`
TxnIdOf(t, k) == <<t, k>>

\* An order id no request ever generates (a caller's id of no stored order).
NoOrder == <<0, 0>>

\* SQL NULL in the transaction_id column.
NoTxn == <<>>

\* A product id of no stored product.
NoProduct == "none"

\* metadata?.orderId of a notification that carries no order id.
NoOrderId == <<>>

\* SQL NULL in the lipiana_response column.
NoPayload == <<>>

\* SQL NULL as the result of SUM (every sum of totals is >= 0).
NullSum == -1

\* The four queries of the dashboard, by the name of their result.
DashQueries == {"totalOrders", "totalRevenue", "pendingOrders", "totalProducts"}

\* The results of the dashboard's queries before any has run.
NoStats == [q \in DashQueries |-> <<>>]

\* The events the gateway notifies.
Events == {"payment.completed", "payment.failed"}

\* The data of a notification: its transaction_id and metadata.orderId.
PayloadOf(txn, id) == <<txn, id>>

ValidStatuses == {"pending", "confirmed", "delivered", "cancelled"}

\* What a caller may send as status: the four values and one that is none.
StatusArgs == ValidStatuses \cup {"shipped"}

\* The body fields of POST /api/orders that some iteration checks or that a
\* NOT NULL column stores.
OrderFields ==
    {"customerName", "email", "phone", "location", "items",
     "subtotal", "deliveryFee", "total"}

\* A body field is "ok" (present and truthy), "falsy" (present, but '' or
\* 0) or "missing" (undefined).  The body with every field "ok":
AllOk == [f \in OrderFields |-> "ok"]

\* The request bodies the model sends: at most one field is not "ok".
OrderInputs ==
    {AllOk} \cup
    {[AllOk EXCEPT ![f] = s] : f \in OrderFields, s \in {"falsy", "missing"}}

\* No x-admin-token header (or an empty one).
NoToken == 0

\* The id of the default administrator ('admin_001' in server.js), and the
\* token part_000 gives that row when it creates it.
AdminId == 1

\* The tokens a caller may send: none, the administrator's id or first
\* token, those the logins make, and one that was never in the store.
TokenArgs == 0..(AdminId + MaxLogins + 1)

\* The bodies of POST /api/admin/login.
Credentials ==
    [email : {"admin", "other"}, password : {"right", "wrong"}]

\* An idle request slot.
IdleReq ==
    [kind |-> "none", pc |-> "idle", orderId |-> NoOrder,
     productId |-> NoProduct, input |-> AllOk,
     status |-> "", event |-> "", est |-> Null, verdict |-> FALSE,
     txn |-> NoTxn,
     total |-> 0, todo |-> {}, stats |-> NoStats,
     code |-> 0, faultAt |-> "", wrote |-> {}, pays0 |-> {},
     again |-> FALSE, tok |-> NoToken]

----------------------------------------------------------------------------
\* The SQL statements, as functions of the tables.

\* InsertOrder with the status column bound to 'confirmed' instead of left
\* to its default.
InsertOrderConfirmed(ords, id, txn, total, t) ==
    [x \in DOMAIN ords \cup {id} |->
        IF x = id
        THEN [status |-> "confirmed", payment_verified |-> FALSE,
              transaction_id |-> txn, estimated_delivery |-> Null,
              total |-> total, updated_at |-> t]
        ELSE ords[x]]

\* INSERT INTO orders (...) VALUES (...): status, payment_verified and
\* estimated_delivery are not in the column list and take the defaults of
\* the schema ('pending', false, NULL).
InsertOrder(ords, id, txn, total, t) ==
    [x \in DOMAIN ords \cup {id} |->
        IF x = id
        THEN [status |-> "pending", payment_verified |-> FALSE,
              transaction_id |-> txn, estimated_delivery |-> Null,
              total |-> total, updated_at |-> t]
        ELSE ords[x]]

\* UpdateOrderStatus with estimated_delivery = COALESCE($2, estimated_delivery):
\* a NULL parameter keeps what the column holds.
UpdateOrderStatusKeepingEstimate(ords, id, status, est, t) ==
    [x \in DOMAIN ords |->
        IF x = id
        THEN [ords[x] EXCEPT !.status = status,
                             !.estimated_delivery =
                                 IF est = Null THEN @ ELSE est,
                             !.updated_at = t]
        ELSE ords[x]]

\* UpdateOrderStatus that takes the payment for unverified again when the
\* order leaves confirmed.
UpdateOrderStatusResettingFlag(ords, id, status, est, t) ==
    [x \in DOMAIN ords |->
        IF x = id
        THEN [ords[x] EXCEPT !.status = status, !.estimated_delivery = est,
                             !.payment_verified =
                                 IF status = "confirmed" THEN @ ELSE FALSE,
                             !.updated_at = t]
        ELSE ords[x]]

\* UpdateOrderStatus with a transition table: a delivered or cancelled order
\* keeps its status.
UpdateOrderStatusForwardOnly(ords, id, status, est, t) ==
    [x \in DOMAIN ords |->
        IF x = id /\ ords[x].status \notin {"delivered", "cancelled"}
        THEN [ords[x] EXCEPT !.status = status, !.estimated_delivery = est,
                             !.updated_at = t]
        ELSE ords[x]]

\* UPDATE orders SET status = $1, estimated_delivery = $2,
\*        updated_at = CURRENT_TIMESTAMP WHERE id = $3
UpdateOrderStatus(ords, id, status, est, t) ==
    [x \in DOMAIN ords |->
        IF x = id
        THEN [ords[x] EXCEPT !.status = status, !.estimated_delivery = est,
                             !.updated_at = t]
        ELSE ords[x]]

\* UPDATE orders SET payment_verified = true, status = 'confirmed',
\*        updated_at = CURRENT_TIMESTAMP WHERE id = $1
UpdateOrderVerified(ords, id, t) ==
    [x \in DOMAIN ords |->
        IF x = id
        THEN [ords[x] EXCEPT !.payment_verified = TRUE,
                             !.status = "confirmed", !.updated_at = t]
        ELSE ords[x]]

\* UPDATE payments SET status = 'completed', verified_at = CURRENT_TIMESTAMP
\*        WHERE order_id = $1
UpdatePaymentsCompleted(pays, id, t) ==
    [p \in DOMAIN pays |->
        IF pays[p].order_id = id
        THEN [pays[p] EXCEPT !.status = "completed", !.verified_at = t]
        ELSE pays[p]]

\* INSERT INTO payments (id, order_id, amount, ..., transaction_id, status)
\* VALUES (..., 'pending')
InsertPayment(pays, pid, id, txn) ==
    [p \in DOMAIN pays \cup {pid} |->
        IF p = pid
        THEN [order_id |-> id, status |-> "pending", verified_at |-> Null,
              transaction_id |-> txn, lipiana_response |-> NoPayload]
        ELSE pays[p]]

\* UPDATE orders SET payment_verified = true, transaction_id = $1,
\*        status = 'confirmed', updated_at = CURRENT_TIMESTAMP WHERE id = $2
UpdateOrderPaid(ords, id, txn, t) ==
    [x \in DOMAIN ords |->
        IF x = id
        THEN [ords[x] EXCEPT !.payment_verified = TRUE,
                             !.transaction_id = txn,
                             !.status = "confirmed", !.updated_at = t]
        ELSE ords[x]]

\* UPDATE payments SET status = 'completed', lipiana_response = $1,
\*        verified_at = CURRENT_TIMESTAMP
\*        WHERE order_id = $2 AND transaction_id = $3
\* (transaction_id = NULL is true of no row).
UpdatePaymentsNotified(pays, id, txn, data, t) ==
    [p \in DOMAIN pays |->
        IF /\ pays[p].order_id = id
           /\ txn # NoTxn /\ pays[p].transaction_id = txn
        THEN [pays[p] EXCEPT !.status = "completed",
                             !.lipiana_response = data,
                             !.verified_at = t]
        ELSE pays[p]]

\* The payment rows whose order_id is id.
PaymentsOf(pays, id) == {p \in DOMAIN pays : pays[p].order_id = id}

\* uuidv4(): an id no stored payment has.
FreshPaymentId(pays) ==
    CHOOSE p \in PaymentIds \ DOMAIN pays :
        \A q \in PaymentIds \ DOMAIN pays : p <= q

\* The rows addSampleProducts inserts into the empty products table when
\* part_001 starts.
SampleProducts == {"broiler", "kienyeji", "eggs", "other"}

\* The order in which addSampleProducts inserts them.
SampleOrder == <<"broiler", "kienyeji", "eggs", "other">>

\* The ids uuidv4() makes for the products POST /api/products creates.
NewProducts == {"uuid1", "uuid2"}

\* The body fields of POST /api/products whose columns are NOT NULL.
ProductFields == {"title", "description", "type", "price", "quantity"}

\* A body with every field present: the five are "ok", available is true
\* and images is a list of links.
ProductOk ==
    [f \in ProductFields \cup {"available", "images"} |->
        CASE f = "available" -> "true"
          [] f = "images" -> "given"
          [] OTHER -> "ok"]

\* The request bodies the model sends: ProductOk, available: false, and
\* those with one field missing.
ProductInputs ==
    {ProductOk, [ProductOk EXCEPT !["available"] = "false"]} \cup
    {[ProductOk EXCEPT ![f] = "missing"] : f \in DOMAIN ProductOk}

\* The value bound to the available column: the body's in server.js
\* (undefined is bound as NULL), available || true in part_000, the
\* destructuring default true in part_001.
StoredAvailable(v, a) ==
    CASE v = "server" -> IF a = "missing" THEN "null" ELSE a
      [] v = "part_000" -> "true"
      [] OTHER -> IF a = "missing" THEN "true" ELSE a

\* The value bound to the images column: images || [], or the default [].
StoredImages(v, i) == IF i = "missing" THEN "empty" ELSE i

\* INSERT INTO products (id, title, ..., available, images) VALUES (...)
InsertProduct(prods, id, available, images, t) ==
    [x \in DOMAIN prods \cup {id} |->
        IF x = id
        THEN [updated_at |-> t, available |-> available, images |-> images]
        ELSE prods[x]]

\* UPDATE products SET title = $1, ..., updated_at = CURRENT_TIMESTAMP
\*        WHERE id = $8
UpdateProductRow(prods, id, t) ==
    [x \in DOMAIN prods |->
        IF x = id THEN [prods[x] EXCEPT !.updated_at = t] ELSE prods[x]]

\* DELETE FROM products WHERE id = $1
DeleteProductRow(prods, id) ==
    [x \in DOMAIN prods \ {id} |-> prods[x]]

----------------------------------------------------------------------------
\* The tables are empty when the service starts (part_001 adds its sample
\* products) and no request is being handled.
Init ==
    /\ variant \in Variants
    /\ now = 1
    /\ orders = [x \in {} |-> 0]
    /\ payments = [p \in {} |-> 0]
    /\ products = [x \in IF variant = "part_001" THEN SampleProducts ELSE {}
                      |-> [updated_at |-> now, available |-> "true",
                           images |-> "given"]]
    /\ admin_users = [id |-> AdminId,
                      token |-> IF variant = "part_000" THEN AdminId
                                ELSE NoToken]
    /\ issued = 0
    /\ req = [r \in Slots |-> IdleReq]

\* The request slots a new request may take.
Free(r) == req[r].pc \in {"idle", "done"}

\* TokenKnown that finds a row for whatever token is sent.
TokenKnownAny(v, adm, tok) == tok # NoToken

\* SELECT * FROM admin_users WHERE id = $1 (server.js) or WHERE token = $1
\* (part_000) finds a row.
TokenKnown(v, adm, tok) ==
    IF v = "server" THEN tok = adm.id ELSE tok = adm.token

\* The operations behind authenticateAdmin in server.js and part_000.
GatedKinds ==
    {"createProduct", "updateProduct", "deleteProduct", "getOrder",
     "updateStatus", "dashboard"}

\* The handler of an operation of kind k begins in slot r: for a request
\* that is taken to have passed the administrator check, or, where that
\* check is followed, when its query finds the token and it calls next().
Begins(r, k) ==
    \/ Free(r)
    \/ /\ req[r].kind = k /\ req[r].pc = "auth"
       /\ TokenKnown(variant, admin_users, req[r].tok)

\* The order ids a caller sends: those of the stored orders and one of none.
OrderArgs == DOMAIN orders \cup {NoOrder}

\* The product ids a caller sends: those of the products that are or were
\* stored and one of none.
ProductArgs == SampleProducts \cup {NoProduct}

\* Requests of kind k that are still being handled.
InFlight(k) == {s \in Slots : req[s].kind = k /\ ~Free(s)}

\* The handler activation rec ends with res.status(code).json(...).  What
\* stays in the slot is the request as the caller sent it, the response code
\* and the record of what the handler did; its locals are gone.
Ended(rec, code, at) ==
    [IdleReq EXCEPT !.kind = rec.kind, !.pc = "done", !.code = code,
                    !.input = rec.input, !.status = rec.status,
                    !.event = rec.event, !.stats = rec.stats,
                    !.verdict = rec.verdict, !.wrote = rec.wrote,
                    !.faultAt = at, !.tok = rec.tok]

Respond(r, code) == [req EXCEPT ![r] = Ended(req[r], code, "")]

\* The handler of r moves on to its next query.
Goto(r, pc) == [req EXCEPT ![r].pc = pc]

\* The positions at which a handler awaits a query.
QueryPcs ==
    {"auth", "l_select", "l_update", "cpr_insert", "tp_count", "tp_insert",
     "co_insert", "us_update", "cp_check", "cp_insert",
     "v_check", "v_order", "v_pay", "v_read",
     "gp_select", "up_check", "up_update", "dp_delete", "go_select",
     "w_order", "w_pay", "d_query"}

\* What the caller is answered when a query of a handler of kind k rejects:
\* the handler's catch block answers 500, but addSampleProducts catches the
\* error itself, logs it and returns, and its route answers success.
FaultResponse(k) == IF k = "testProducts" THEN 200 ELSE 500

\* A query rejects (connectivity loss, store failure).  Nothing the handler
\* has written before is undone.
StoreFault(r) ==
    /\ req[r].pc \in QueryPcs
    /\ req' = [req EXCEPT ![r] =
                 Ended(req[r], FaultResponse(req[r].kind), req[r].pc)]
    /\ UNCHANGED <<variant, admin_users, issued, now, orders, payments, products>>

----------------------------------------------------------------------------
\* POST /api/orders

\* The fields whose falsiness makes the handler answer 400.
RequiredOrderFields(v) ==
    CASE v = "part_000" -> OrderFields
      [] v = "part_001" -> OrderFields \ {"subtotal", "deliveryFee"}
      [] OTHER -> {}

\* if (!customerName || !email || ... ) return res.status(400)
OrderRejected(v, in) == \E f \in RequiredOrderFields(v) : in[f] # "ok"

\* The value bound to the column of field f: part_001 binds subtotal || 0 and
\* deliveryFee || 200, every other field is bound as it came.
BoundField(v, in, f) ==
    IF v = "part_001" /\ f \in {"subtotal", "deliveryFee"} /\ in[f] # "ok"
    THEN "ok"
    ELSE in[f]

\* The columns of the eight fields are NOT NULL; undefined is bound as NULL.
NotNullViolation(v, in) ==
    \E f \in OrderFields : BoundField(v, in, f) = "missing"

\* Destructuring, validation and the two ids, up to the INSERT.  in is the
\* request body, amt its total where that is present and not 0, k and k2
\* what the two calls of Math.random() yield.
CreateOrderStart(r, in, k, k2, amt) ==
    /\ Free(r)
    /\ Cardinality(DOMAIN orders) + Cardinality(InFlight("createOrder")) < MaxOrders
    /\    LET fresh == [IdleReq EXCEPT !.kind = "createOrder", !.input = in]
          IN  req' = [req EXCEPT ![r] =
                IF OrderRejected(variant, in)
                THEN Ended(fresh, 400, "")
                ELSE [fresh EXCEPT !.pc = "co_insert",
                                   !.orderId = OrderIdOf(now, k),
                                   !.total = IF in["total"] = "ok"
                                             THEN amt ELSE 0,
                                   !.txn = IF variant = "part_001"
                                           THEN TxnIdOf(now, k2) ELSE NoTxn]]
    /\ UNCHANGED <<variant, admin_users, issued, now, orders, payments, products>>

\* The INSERT and the response.  A NULL in a NOT NULL column or an id that
\* a stored order already has (PRIMARY KEY) makes the query reject: 500.
CreateOrderInsert(r) ==
    /\ req[r].kind = "createOrder" /\ req[r].pc = "co_insert"
    /\ IF \/ NotNullViolation(variant, req[r].input)
          \/ req[r].orderId \in DOMAIN orders
       THEN /\ req' = [req EXCEPT ![r] = Ended(req[r], 500, "constraint")]
            /\ UNCHANGED orders
       ELSE /\ orders' = InsertOrder(orders, req[r].orderId, req[r].txn,
                                     req[r].total, now)
            /\ req' = [req EXCEPT ![r] =
                         Ended([req[r] EXCEPT !.wrote = {"orders"}], 201, "")]
    /\ UNCHANGED <<variant, admin_users, issued, now, payments, products>>

----------------------------------------------------------------------------
\* PATCH /api/orders/:id/status

\* if (!['pending', 'confirmed', 'delivered', 'cancelled'].includes(status))
\* return res.status(400): server.js has no such check.
StatusRejected(v, status) == v # "server" /\ status \notin ValidStatuses

\* EstimatedDelivery computed whatever the status.
EstimatedDeliveryAlways(status, t) == t + EstimatedDeliveryOffset

\* EstimatedDelivery without the offset: the time of the request itself.
EstimatedDeliveryNoOffset(status, t) ==
    IF status = "confirmed" THEN t ELSE Null

\* let estimatedDelivery = null;
\* if (status === 'confirmed') estimatedDelivery = new Date(Date.now() + 45 min)
EstimatedDelivery(status, t) ==
    IF status = "confirmed" THEN t + EstimatedDeliveryOffset ELSE Null

\* The handler up to its UPDATE.  In server.js and part_000 the route is
\* administrator-gated; the handler runs once that check has passed.
UpdateStatusStart(r) ==
    /\ Begins(r, "updateStatus")
    /\ \E id \in OrderArgs, s \in StatusArgs :
          LET fresh == [IdleReq EXCEPT !.kind = "updateStatus",
                                       !.orderId = id, !.status = s]
          IN  req' = [req EXCEPT ![r] =
                IF StatusRejected(variant, s)
                THEN Ended(fresh, 400, "")
                ELSE [fresh EXCEPT !.pc = "us_update",
                                   !.est = EstimatedDelivery(s, now)]]
    /\ UNCHANGED <<variant, admin_users, issued, now, orders, payments, products>>

\* UPDATE ... RETURNING *: no row returned is 404.
UpdateStatusWrite(r) ==
    /\ req[r].kind = "updateStatus" /\ req[r].pc = "us_update"
    /\ orders' = UpdateOrderStatus(orders, req[r].orderId, req[r].status,
                                   req[r].est, now)
    /\ req' = [req EXCEPT ![r] =
                 Ended([req[r] EXCEPT !.wrote = IF orders' # orders
                                                THEN {"orders"} ELSE {}],
                       IF req[r].orderId \in DOMAIN orders THEN 200 ELSE 404,
                       "")]
    /\ UNCHANGED <<variant, admin_users, issued, now, payments, products>>

----------------------------------------------------------------------------
\* GET /api/orders/:id

\* part_001 has no such route: the framework answers 404 at once.  In
\* server.js and part_000 the handler runs once the administrator gate has
\* passed.
GetOrderStart(r) ==
    /\ Begins(r, "getOrder")
    /\ \E id \in OrderArgs :
          LET fresh == [IdleReq EXCEPT !.kind = "getOrder", !.orderId = id]
          IN  req' = [req EXCEPT ![r] =
                IF variant = "part_001"
                THEN Ended(fresh, 404, "")
                ELSE [fresh EXCEPT !.pc = "go_select"]]
    /\ UNCHANGED <<variant, admin_users, issued, now, orders, payments, products>>

\* SELECT * FROM orders WHERE id = $1; no row is 404.
GetOrderSelect(r) ==
    /\ req[r].kind = "getOrder" /\ req[r].pc = "go_select"
    /\ req' = Respond(r, IF req[r].orderId \in DOMAIN orders THEN 200 ELSE 404)
    /\ UNCHANGED <<variant, admin_users, issued, now, orders, payments, products>>

----------------------------------------------------------------------------
\* GET, PUT and DELETE /api/products/:id.  PUT and DELETE are
\* administrator-gated in server.js and part_000; the handlers run once
\* that check has passed.  The body of PUT is well-formed.

GetProductStart(r, id) ==
    /\ Free(r)
    /\ req' = [req EXCEPT ![r] =
                [IdleReq EXCEPT !.kind = "getProduct",
                                !.pc = "gp_select", !.productId = id]]
    /\ UNCHANGED <<variant, admin_users, issued, now, orders, payments, products>>

\* SELECT * FROM products WHERE id = $1; no row is 404.
GetProductSelect(r) ==
    /\ req[r].kind = "getProduct" /\ req[r].pc = "gp_select"
    /\ req' = Respond(r, IF req[r].productId \in DOMAIN products
                         THEN 200 ELSE 404)
    /\ UNCHANGED <<variant, admin_users, issued, now, orders, payments, products>>

\* The first query of PUT: part_001 SELECTs the product before its UPDATE,
\* server.js and part_000 UPDATE at once.
UpdateProductFirstPc(v) == IF v = "part_001" THEN "up_check" ELSE "up_update"

UpdateProductStart(r, id) ==
    /\ Begins(r, "updateProduct")
    /\ req' = [req EXCEPT ![r] =
                [IdleReq EXCEPT !.kind = "updateProduct",
                                !.pc = UpdateProductFirstPc(variant),
                                !.productId = id]]
    /\ UNCHANGED <<variant, admin_users, issued, now, orders, payments, products>>

\* part_001: SELECT id FROM products WHERE id = $1; no row is 404.
UpdateProductCheck(r) ==
    /\ req[r].kind = "updateProduct" /\ req[r].pc = "up_check"
    /\ req' = IF req[r].productId \in DOMAIN products
              THEN Goto(r, "up_update")
              ELSE Respond(r, 404)
    /\ UNCHANGED <<variant, admin_users, issued, now, orders, payments, products>>

\* UPDATE ... RETURNING *.  server.js and part_000 answer 404 when no row
\* is returned; part_001 answers 200 with whatever rows[0] is.
UpdateProductWrite(r) ==
    /\ req[r].kind = "updateProduct" /\ req[r].pc = "up_update"
    /\ products' = UpdateProductRow(products, req[r].productId, now)
    /\ req' = [req EXCEPT ![r] =
                 Ended([req[r] EXCEPT !.wrote = IF products' # products
                                                THEN {"products"} ELSE {}],
                       IF \/ variant = "part_001"
                          \/ req[r].productId \in DOMAIN products
                       THEN 200 ELSE 404,
                       "")]
    /\ UNCHANGED <<variant, admin_users, issued, now, orders, payments>>

DeleteProductStart(r, id) ==
    /\ Begins(r, "deleteProduct")
    /\ req' = [req EXCEPT ![r] =
                [IdleReq EXCEPT !.kind = "deleteProduct",
                                !.pc = "dp_delete", !.productId = id]]
    /\ UNCHANGED <<variant, admin_users, issued, now, orders, payments, products>>

\* DeleteProductWrite without the test of the returned rows: the handler
\* answers 200 whether or not a row was deleted.
DeleteProductWriteUnchecked(r) ==
    /\ req[r].kind = "deleteProduct" /\ req[r].pc = "dp_delete"
    /\ products' = DeleteProductRow(products, req[r].productId)
    /\ req' = [req EXCEPT ![r] =
                 Ended([req[r] EXCEPT !.wrote = IF products' # products
                                                THEN {"products"} ELSE {}],
                       200, "")]
    /\ UNCHANGED <<variant, admin_users, issued, now, orders, payments>>

\* DELETE FROM products WHERE id = $1 RETURNING *; no row is 404.
DeleteProductWrite(r) ==
    /\ req[r].kind = "deleteProduct" /\ req[r].pc = "dp_delete"
    /\ products' = DeleteProductRow(products, req[r].productId)
    /\ req' = [req EXCEPT ![r] =
                 Ended([req[r] EXCEPT !.wrote = IF products' # products
                                                THEN {"products"} ELSE {}],
                       IF req[r].productId \in DOMAIN products
                       THEN 200 ELSE 404,
                       "")]
    /\ UNCHANGED <<variant, admin_users, issued, now, orders, payments>>

----------------------------------------------------------------------------
\* POST /api/payments/create

CreatePaymentStart(r) ==
    /\ Free(r)
    /\ Cardinality(DOMAIN payments) + Cardinality(InFlight("createPayment"))
          < MaxPayments
    /\ \E id \in OrderArgs :
          req' = [req EXCEPT ![r] =
                    [IdleReq EXCEPT !.kind = "createPayment",
                                    !.pc = "cp_check", !.orderId = id]]
    /\ UNCHANGED <<variant, admin_users, issued, now, orders, payments, products>>

\* CreatePaymentCheck without the test of the SELECT's result: the handler
\* goes on to its INSERT whether or not the order is stored.
CreatePaymentCheckSkipped(r, k) ==
    /\ req[r].kind = "createPayment" /\ req[r].pc = "cp_check"
    /\ req' = [req EXCEPT ![r].pc = "cp_insert", ![r].txn = TxnIdOf(now, k)]
    /\ UNCHANGED <<variant, admin_users, issued, now, orders, payments, products>>

\* SELECT ... FROM orders WHERE id = $1; no row is 404.  Then the
\* transaction id is made; k is what Math.random() yields.
CreatePaymentCheck(r, k) ==
    /\ req[r].kind = "createPayment" /\ req[r].pc = "cp_check"
    /\ IF req[r].orderId \in DOMAIN orders
       THEN    req' = [req EXCEPT ![r].pc = "cp_insert",
                                  ![r].txn = TxnIdOf(now, k)]
       ELSE req' = Respond(r, 404)
    /\ UNCHANGED <<variant, admin_users, issued, now, orders, payments, products>>

CreatePaymentInsert(r) ==
    /\ req[r].kind = "createPayment" /\ req[r].pc = "cp_insert"
    /\ payments' = InsertPayment(payments, FreshPaymentId(payments),
                                 req[r].orderId, req[r].txn)
    /\ req' = [req EXCEPT ![r] =
                 Ended([req[r] EXCEPT !.wrote = {"payments"}], 200, "")]
    /\ UNCHANGED <<variant, admin_users, issued, now, orders, products>>

----------------------------------------------------------------------------
\* POST /api/payments/verify/:orderId

\* The verification predicate: Math.random() > 0.1 in server.js and
\* part_000, the constant true in part_001.
Verdicts(v) == IF v = "part_001" THEN {TRUE} ELSE BOOLEAN

\* The order of the handler's queries: server.js and part_000 write the
\* order and then the payments; part_001 reads the order, writes the
\* payments, writes the order and reads the order again.
VerifyFirstPc(v) == IF v = "part_001" THEN "v_check" ELSE "v_order"
VerifyAfterOrder(v) == IF v = "part_001" THEN "v_read" ELSE "v_pay"
VerifyAfterPayments(v) == IF v = "part_001" THEN "v_order" ELSE "done"
VerifySecondWrite(v) == IF v = "part_001" THEN "v_order" ELSE "v_pay"

\* Whether order id stands as a successful verification leaves it: payment
\* verified, confirmed, and every payment of it completed.
Verified(ords, pays, id) ==
    /\ id \in DOMAIN ords
    /\ ords[id].payment_verified
    /\ ords[id].status = "confirmed"
    /\ \A p \in PaymentsOf(pays, id) : pays[p].status = "completed"

\* VerifyStart with the test of paymentVerified left out: the handler goes
\* on to its writes whatever the verdict.
VerifyStartIgnoringVerdict(r) ==
    /\ Free(r)
    /\ \E id \in OrderArgs, ok \in Verdicts(variant) :
          req' = [req EXCEPT ![r] =
                    [IdleReq EXCEPT !.kind = "verify", !.orderId = id,
                                    !.verdict = ok,
                                    !.pays0 = PaymentsOf(payments, id),
                                    !.again = Verified(orders, payments, id),
                                    !.pc = VerifyFirstPc(variant)]]
    /\ UNCHANGED <<variant, admin_users, issued, now, orders, payments, products>>

\* The handler up to its first query; a verdict of failure answers 400
\* here, before any query.
VerifyStart(r) ==
    /\ Free(r)
    /\ \E id \in OrderArgs, ok \in Verdicts(variant) :
          LET fresh == [IdleReq EXCEPT !.kind = "verify", !.orderId = id,
                                       !.verdict = ok,
                                       !.pays0 = PaymentsOf(payments, id),
                                       !.again = Verified(orders, payments, id)]
          IN  req' = [req EXCEPT ![r] =
                IF ok
                THEN [fresh EXCEPT !.pc = VerifyFirstPc(variant)]
                ELSE Ended(fresh, 400, "")]
    /\ UNCHANGED <<variant, admin_users, issued, now, orders, payments, products>>

\* part_001: SELECT * FROM orders WHERE id = $1; no row is 404.
VerifyCheck(r) ==
    /\ req[r].kind = "verify" /\ req[r].pc = "v_check"
    /\ req' = IF req[r].orderId \in DOMAIN orders
              THEN Goto(r, "v_pay")
              ELSE Respond(r, 404)
    /\ UNCHANGED <<variant, admin_users, issued, now, orders, payments, products>>

\* The UPDATE of the order row.
VerifyWriteOrder(r) ==
    /\ req[r].kind = "verify" /\ req[r].pc = "v_order"
    /\ orders' = UpdateOrderVerified(orders, req[r].orderId, now)
    /\ req' = [req EXCEPT ![r].pc = VerifyAfterOrder(variant),
                 ![r].wrote = IF orders' # orders
                              THEN req[r].wrote \cup {"orders"}
                              ELSE req[r].wrote]
    /\ UNCHANGED <<variant, admin_users, issued, now, payments, products>>

\* The UPDATE of the payment rows; in server.js and part_000 the response
\* follows it.
VerifyWritePayments(r) ==
    /\ req[r].kind = "verify" /\ req[r].pc = "v_pay"
    /\ payments' = UpdatePaymentsCompleted(payments, req[r].orderId, now)
    /\ LET next == VerifyAfterPayments(variant)
           rec == [req[r] EXCEPT !.wrote = IF payments' # payments
                                           THEN req[r].wrote \cup {"payments"}
                                           ELSE req[r].wrote]
       IN  req' = [req EXCEPT ![r] = IF next = "done"
                                     THEN Ended(rec, 200, "")
                                     ELSE [rec EXCEPT !.pc = next]]
    /\ UNCHANGED <<variant, admin_users, issued, now, orders, products>>

\* part_001: SELECT * FROM orders WHERE id = $1 and the response.
VerifyRead(r) ==
    /\ req[r].kind = "verify" /\ req[r].pc = "v_read"
    /\ req' = Respond(r, 200)
    /\ UNCHANGED <<variant, admin_users, issued, now, orders, payments, products>>

----------------------------------------------------------------------------
\* POST /api/webhooks/lipiana (server.js only; the other iterations have no
\* such route and the framework answers 404).

\* The transaction ids a notification carries: those of the stored payments
\* and none.
TxnArgs == {payments[p].transaction_id : p \in DOMAIN payments} \cup {NoTxn}

\* if (event === 'payment.completed') { ... if (orderId) { ...
Applies(ev, id) == ev = "payment.completed" /\ id # NoOrderId

\* Whether order id stands as one delivery of the notification (txn, id)
\* leaves it: paid with that transaction id, and the payment of that
\* transaction completed with the payload stored.
Notified(ords, pays, id, txn) ==
    /\ id \in DOMAIN ords
    /\ ords[id].payment_verified
    /\ ords[id].status = "confirmed"
    /\ ords[id].transaction_id = txn
    /\ \E p \in PaymentsOf(pays, id) : pays[p].transaction_id = txn
    /\ \A p \in PaymentsOf(pays, id) :
          pays[p].transaction_id = txn
          => /\ pays[p].status = "completed"
             /\ pays[p].lipiana_response = PayloadOf(txn, id)

\* WebhookStart without the test of the event: every notification that
\* carries an order id is applied.
WebhookStartAnyEvent(r, ev, id, txn) ==
    /\ Free(r)
    /\ LET fresh == [IdleReq EXCEPT !.kind = "webhook", !.event = ev,
                                    !.orderId = id]
       IN  req' = [req EXCEPT ![r] =
             IF variant # "server"
             THEN [fresh EXCEPT !.pc = "done", !.code = 404]
             ELSE IF id # NoOrderId
                  THEN [fresh EXCEPT !.pc = "w_order", !.txn = txn]
                  ELSE [fresh EXCEPT !.pc = "done", !.code = 200]]
    /\ UNCHANGED <<variant, admin_users, issued, now, orders, payments, products>>

\* The handler up to its first query: a notification of another event or
\* without an order id is acknowledged at once.  ev, id and txn are the
\* notification's event, metadata.orderId and transaction_id.
WebhookStart(r, ev, id, txn) ==
    /\ Free(r)
    /\ LET fresh == [IdleReq EXCEPT !.kind = "webhook", !.event = ev,
                                    !.orderId = id]
       IN  req' = [req EXCEPT ![r] =
             IF variant # "server"
             THEN [fresh EXCEPT !.pc = "done", !.code = 404]
             ELSE IF Applies(ev, id)
                  THEN [fresh EXCEPT
                          !.pc = "w_order", !.txn = txn,
                          !.pays0 = PaymentsOf(payments, id),
                          !.again = Notified(orders, payments, id, txn)]
                  ELSE [fresh EXCEPT !.pc = "done", !.code = 200]]
    /\ UNCHANGED <<variant, admin_users, issued, now, orders, payments, products>>

\* WebhookWriteOrder with the acknowledgment sent once the order is
\* written, the update of the payments not awaited.
WebhookWriteOrderAcknowledging(r) ==
    /\ req[r].kind = "webhook" /\ req[r].pc = "w_order"
    /\ orders' = UpdateOrderPaid(orders, req[r].orderId, req[r].txn, now)
    /\ req' = [req EXCEPT ![r] =
                 Ended([req[r] EXCEPT !.wrote = IF orders' # orders
                                                THEN {"orders"} ELSE {}],
                       200, "")]
    /\ UNCHANGED <<variant, admin_users, issued, now, payments, products>>

\* The UPDATE of the order row.
WebhookWriteOrder(r) ==
    /\ req[r].kind = "webhook" /\ req[r].pc = "w_order"
    /\ orders' = UpdateOrderPaid(orders, req[r].orderId, req[r].txn, now)
    /\ req' = [req EXCEPT ![r].pc = "w_pay",
                 ![r].wrote = IF orders' # orders
                              THEN req[r].wrote \cup {"orders"}
                              ELSE req[r].wrote]
    /\ UNCHANGED <<variant, admin_users, issued, now, payments, products>>

\* The UPDATE of the payment rows and the acknowledgment.
WebhookWritePayments(r) ==
    /\ req[r].kind = "webhook" /\ req[r].pc = "w_pay"
    /\ payments' = UpdatePaymentsNotified(payments, req[r].orderId,
                        req[r].txn, PayloadOf(req[r].txn, req[r].orderId), now)
    /\ req' = [req EXCEPT ![r] =
                 Ended([req[r] EXCEPT !.wrote = IF payments' # payments
                                                THEN req[r].wrote \cup {"payments"}
                                                ELSE req[r].wrote],
                       200, "")]
    /\ UNCHANGED <<variant, admin_users, issued, now, orders, products>>

----------------------------------------------------------------------------
\* GET /api/dashboard/stats.  The handler issues its queries together
\* (Promise.all); each runs on its own and sees the tables as they are when
\* it runs.  In server.js and part_000 the handler runs once the
\* administrator gate has passed.  (server.js also reads the five latest
\* orders; that query is not a figure of the summary and is left out.)

\* The text in which the store returns a NUMERIC(10, 2) of n units:
\* integer part and the two decimals.
DecimalText(n) == <<n, 0>>

\* The text in which the store returns a COUNT(*) of n: a bigint.
CountText(n) == <<n>>

\* parseFloat of a decimal text, in hundredths.
ParseFloat(txt) == txt[1] * 100 + txt[2]

\* parseInt of a bigint text.
ParseInt(txt) == txt[1]

\* SUM(total) over the rows ids of ords: NULL over no row.
RECURSIVE SumTotal(_, _)
SumTotal(ords, ids) ==
    IF ids = {}
    THEN NullSum
    ELSE LET x == CHOOSE y \in ids : TRUE
             rest == SumTotal(ords, ids \ {x})
         IN  ords[x].total + (IF rest = NullSum THEN 0 ELSE rest)

\* COALESCE(v, 0)
Coalesce(v) == IF v = NullSum THEN 0 ELSE v

\* Revenue with no WHERE clause: the sum over every order.
RevenueOfAll(ords) ==
    DecimalText(Coalesce(SumTotal(ords, DOMAIN ords)))

\* SELECT COALESCE(SUM(total), 0) as revenue FROM orders
\*        WHERE status IN ('confirmed', 'delivered')
Revenue(ords) ==
    DecimalText(Coalesce(SumTotal(ords,
        {x \in DOMAIN ords : ords[x].status \in {"confirmed", "delivered"}})))

\* What query q of the dashboard returns.
DashResult(q) ==
    CASE q = "totalOrders" -> CountText(Cardinality(DOMAIN orders))
      [] q = "totalRevenue" -> Revenue(orders)
      [] q = "pendingOrders" ->
            CountText(Cardinality({x \in DOMAIN orders :
                                      orders[x].status = "pending"}))
      [] q = "totalProducts" -> CountText(Cardinality(DOMAIN products))

\* The figure of the summary made of the result of query q:
\* parseFloat(revenue || 0) (a decimal text is truthy), parseInt(count).
DashFigure(q, txt) ==
    IF q = "totalRevenue" THEN ParseFloat(txt) ELSE ParseInt(txt)

DashStart(r) ==
    /\ Begins(r, "dashboard")
    /\ req' = [req EXCEPT ![r] =
                 [IdleReq EXCEPT !.kind = "dashboard", !.pc = "d_query",
                                 !.todo = DashQueries]]
    /\ UNCHANGED <<variant, admin_users, issued, now, orders, payments, products>>

\* One of the queries runs; once all have, the summary is made and sent.
DashQuery(r, q) ==
    /\ req[r].kind = "dashboard" /\ req[r].pc = "d_query"
    /\ q \in req[r].todo
    /\ LET rec == [req[r] EXCEPT !.todo = @ \ {q},
                                 !.stats[q] = DashResult(q)]
       IN  req' = [req EXCEPT ![r] =
             IF rec.todo = {}
             THEN Ended([rec EXCEPT !.stats =
                            [x \in DashQueries |-> DashFigure(x, rec.stats[x])]],
                        200, "")
             ELSE rec]
    /\ UNCHANGED <<variant, admin_users, issued, now, orders, payments, products>>

----------------------------------------------------------------------------
\* POST /api/products and POST /api/test/products.

\* if (!title || !description || !type || !price || quantity === undefined)
\* return res.status(400): part_001 alone has the check.
ProductRejected(v, in) ==
    v = "part_001" /\ \E f \in ProductFields : in[f] = "missing"

\* The handler up to its INSERT: the body in, the check, the id.
CreateProductStart(r, in) ==
    /\ Begins(r, "createProduct")
    /\ \E id \in NewProducts \ DOMAIN products :
          /\ \A s \in InFlight("createProduct") : req[s].productId # id
          /\ LET fresh == [IdleReq EXCEPT !.kind = "createProduct",
                                          !.input = in]
             IN  req' = [req EXCEPT ![r] =
                   IF ProductRejected(variant, in)
                   THEN Ended(fresh, 400, "")
                   ELSE [fresh EXCEPT !.pc = "cpr_insert",
                                      !.productId = id]]
    /\ UNCHANGED <<variant, admin_users, issued, now, orders, payments, products>>

\* The INSERT and the response.  A NULL in a NOT NULL column makes the
\* query reject: 500.
CreateProductInsert(r) ==
    /\ req[r].kind = "createProduct" /\ req[r].pc = "cpr_insert"
    /\ IF \E f \in ProductFields : req[r].input[f] = "missing"
       THEN /\ req' = [req EXCEPT ![r] = Ended(req[r], 500, "constraint")]
            /\ UNCHANGED products
       ELSE /\ products' =
                 InsertProduct(products, req[r].productId,
                     StoredAvailable(variant, req[r].input["available"]),
                     StoredImages(variant, req[r].input["images"]), now)
            /\ req' = [req EXCEPT ![r] =
                         Ended([req[r] EXCEPT !.wrote = {"products"}],
                               201, "")]
    /\ UNCHANGED <<variant, admin_users, issued, now, orders, payments>>

\* part_001, POST /api/test/products: await addSampleProducts(), up to its
\* SELECT COUNT(*).  One such request is handled at a time.
TestProductsStart(r) ==
    /\ variant = "part_001"
    /\ Free(r)
    /\ InFlight("testProducts") = {}
    /\ req' = [req EXCEPT ![r] =
                 [IdleReq EXCEPT !.kind = "testProducts", !.pc = "tp_count"]]
    /\ UNCHANGED <<variant, admin_users, issued, now, orders, payments, products>>

\* SELECT COUNT(*) FROM products: with no product the four samples are to
\* be inserted, otherwise the function returns and the route answers.
TestProductsCount(r) ==
    /\ req[r].kind = "testProducts" /\ req[r].pc = "tp_count"
    /\ req' = IF DOMAIN products = {}
              THEN [req EXCEPT ![r].pc = "tp_insert",
                               ![r].todo = SampleProducts]
              ELSE Respond(r, 200)
    /\ UNCHANGED <<variant, admin_users, issued, now, orders, payments, products>>

\* The next INSERT of the loop; after the last the route answers.
TestProductsInsert(r) ==
    /\ req[r].kind = "testProducts" /\ req[r].pc = "tp_insert"
    /\ LET i == CHOOSE j \in 1..Len(SampleOrder) :
                   /\ SampleOrder[j] \in req[r].todo
                   /\ \A k \in 1..(j - 1) : SampleOrder[k] \notin req[r].todo
           x == SampleOrder[i]
           rec == [req[r] EXCEPT !.todo = @ \ {x}, !.wrote = {"products"}]
       IN  /\ products' = InsertProduct(products, x, "true", "given", now)
           /\ req' = [req EXCEPT ![r] =
                        IF rec.todo = {} THEN Ended(rec, 200, "") ELSE rec]
    /\ UNCHANGED <<variant, admin_users, issued, now, orders, payments>>

----------------------------------------------------------------------------
\* authenticateAdmin and POST /api/admin/login (server.js, part_000).

\* A request for a gated operation of kind k arrives with the x-admin-token
\* header tok: if (!token) return res.status(401), else the SELECT follows.
GateStart(r, k, tok) ==
    /\ variant # "part_001"
    /\ Free(r)
    /\ LET fresh == [IdleReq EXCEPT !.kind = k, !.tok = tok]
       IN  req' = [req EXCEPT ![r] =
                     IF tok = NoToken
                     THEN Ended(fresh, 401, "")
                     ELSE [fresh EXCEPT !.pc = "auth"]]
    /\ UNCHANGED <<variant, admin_users, issued, now, orders, payments, products>>

\* The SELECT finds no row: 403.  (When it finds one the handler begins.)
AuthDeny(r) ==
    /\ req[r].pc = "auth"
    /\ ~TokenKnown(variant, admin_users, req[r].tok)
    /\ req' = Respond(r, 403)
    /\ UNCHANGED <<variant, admin_users, issued, now, orders, payments, products>>

\* POST /api/admin/login with the body cred, up to its SELECT.
LoginStart(r, cred) ==
    /\ variant # "part_001"
    /\ Free(r)
    /\ issued + Cardinality(InFlight("login")) < MaxLogins
    /\ req' = [req EXCEPT ![r] =
                 [IdleReq EXCEPT !.kind = "login", !.pc = "l_select",
                                 !.input = cred]]
    /\ UNCHANGED <<variant, admin_users, issued, now, orders, payments, products>>

\* SELECT * FROM admin_users WHERE email = $1 and bcrypt.compare: 401 when
\* either fails.  server.js answers with the administrator's id as the
\* token; part_000 makes a new token with uuidv4() and goes on to store it.
LoginSelect(r) ==
    /\ req[r].kind = "login" /\ req[r].pc = "l_select"
    /\ IF req[r].input.email # "admin" \/ req[r].input.password # "right"
       THEN /\ req' = Respond(r, 401)
            /\ UNCHANGED issued
       ELSE IF variant = "server"
       THEN /\ req' = [req EXCEPT ![r] =
                         Ended([req[r] EXCEPT !.tok = admin_users.id],
                               200, "")]
            /\ UNCHANGED issued
       ELSE /\ issued' = issued + 1
            /\ req' = [req EXCEPT ![r].pc = "l_update",
                                  ![r].tok = AdminId + issued']
    /\ UNCHANGED <<variant, admin_users, now, orders, payments, products>>

\* part_000: UPDATE admin_users SET token = $1 WHERE id = $2, and the
\* response with the new token.
LoginUpdate(r) ==
    /\ req[r].kind = "login" /\ req[r].pc = "l_update"
    /\ admin_users' = [admin_users EXCEPT !.token = req[r].tok]
    /\ req' = [req EXCEPT ![r] =
                 Ended([req[r] EXCEPT !.wrote = {"admin_users"}], 200, "")]
    /\ UNCHANGED <<variant, issued, now, orders, payments, products>>

----------------------------------------------------------------------------
\* Time passes.
Tick ==
    /\ now < MaxTime
    /\ now' = now + 1
    /\ UNCHANGED <<variant, admin_users, issued, orders, payments, products, req>>

Next ==
    \/ Tick
    \/ \E r \in Slots : StoreFault(r)
    \/ \E r \in Slots, in \in OrderInputs, k \in Rands, k2 \in Rands,
          amt \in Totals : CreateOrderStart(r, in, k, k2, amt)
    \/ \E r \in Slots : CreateOrderInsert(r)
    \/ \E r \in Slots : UpdateStatusStart(r)
    \/ \E r \in Slots : UpdateStatusWrite(r)
    \/ \E r \in Slots : CreatePaymentStart(r)
    \/ \E r \in Slots, k \in Rands : CreatePaymentCheck(r, k)
    \/ \E r \in Slots : CreatePaymentInsert(r)
    \/ \E r \in Slots : VerifyStart(r)
    \/ \E r \in Slots : VerifyCheck(r)
    \/ \E r \in Slots : VerifyWriteOrder(r)
    \/ \E r \in Slots : VerifyWritePayments(r)
    \/ \E r \in Slots : VerifyRead(r)
    \/ \E r \in Slots : GetOrderStart(r)
    \/ \E r \in Slots : GetOrderSelect(r)
    \/ \E r \in Slots, id \in ProductArgs : GetProductStart(r, id)
    \/ \E r \in Slots : GetProductSelect(r)
    \/ \E r \in Slots, id \in ProductArgs : UpdateProductStart(r, id)
    \/ \E r \in Slots : UpdateProductCheck(r)
    \/ \E r \in Slots : UpdateProductWrite(r)
    \/ \E r \in Slots, id \in ProductArgs : DeleteProductStart(r, id)
    \/ \E r \in Slots : DeleteProductWrite(r)
    \/ \E r \in Slots, ev \in Events, id \in OrderArgs \cup {NoOrderId},
          txn \in TxnArgs : WebhookStart(r, ev, id, txn)
    \/ \E r \in Slots : WebhookWriteOrder(r)
    \/ \E r \in Slots : WebhookWritePayments(r)
    \/ \E r \in Slots : DashStart(r)
    \/ \E r \in Slots, q \in DashQueries : DashQuery(r, q)
    \/ \E r \in Slots, k \in GatedKinds, tok \in TokenArgs : GateStart(r, k, tok)
    \/ \E r \in Slots : AuthDeny(r)
    \/ \E r \in Slots, cred \in Credentials : LoginStart(r, cred)
    \/ \E r \in Slots : LoginSelect(r)
    \/ \E r \in Slots : LoginUpdate(r)
    \/ \E r \in Slots, in \in ProductInputs : CreateProductStart(r, in)
    \/ \E r \in Slots : CreateProductInsert(r)
    \/ \E r \in Slots : TestProductsStart(r)
    \/ \E r \in Slots : TestProductsCount(r)
    \/ \E r \in Slots : TestProductsInsert(r)

Spec == Init /\ [][Next]_vars

\* The order-payment workflow: orders are created from well-formed bodies,
\* payments are created and verified; requests overlap and queries fail.
NextPay ==
    \/ Tick
    \/ \E r \in Slots : StoreFault(r)
    \/ \E r \in Slots : CreateOrderStart(r, AllOk, 1, 1, 1)
    \/ \E r \in Slots : CreateOrderInsert(r)
    \/ \E r \in Slots : CreatePaymentStart(r)
    \/ \E r \in Slots : CreatePaymentCheck(r, 1)
    \/ \E r \in Slots : CreatePaymentInsert(r)
    \/ \E r \in Slots : VerifyStart(r)
    \/ \E r \in Slots : VerifyCheck(r)
    \/ \E r \in Slots : VerifyWriteOrder(r)
    \/ \E r \in Slots : VerifyWritePayments(r)
    \/ \E r \in Slots : VerifyRead(r)

SpecPay == Init /\ [][NextPay]_vars

\* The order ledger: orders are created from any body and their status is
\* updated; requests overlap and queries fail.
NextOrders ==
    \/ Tick
    \/ \E r \in Slots : StoreFault(r)
    \/ \E r \in Slots, k \in Rands : CreateOrderStart(r, AllOk, k, 1, 1)
    \/ \E r \in Slots : CreateOrderInsert(r)
    \/ \E r \in Slots : UpdateStatusStart(r)
    \/ \E r \in Slots : UpdateStatusWrite(r)

SpecOrders == Init /\ [][NextOrders]_vars

\* Order creation from every request body of OrderInputs.
NextValidate ==
    \/ Tick
    \/ \E r \in Slots : StoreFault(r)
    \/ \E r \in Slots, in \in OrderInputs : CreateOrderStart(r, in, 1, 1, 1)
    \/ \E r \in Slots : CreateOrderInsert(r)

SpecValidate == Init /\ [][NextValidate]_vars

\* The operations by id within one millisecond: products are fetched,
\* updated and deleted, orders are created, fetched and their status
\* updated; requests overlap and queries fail.
NextById ==
    \/ \E r \in Slots : StoreFault(r)
    \/ \E r \in Slots : CreateOrderStart(r, AllOk, 1, 1, 1)
    \/ \E r \in Slots : CreateOrderInsert(r)
    \/ \E r \in Slots : UpdateStatusStart(r)
    \/ \E r \in Slots : UpdateStatusWrite(r)
    \/ \E r \in Slots : GetOrderStart(r)
    \/ \E r \in Slots : GetOrderSelect(r)
    \/ \E r \in Slots, id \in ProductArgs : GetProductStart(r, id)
    \/ \E r \in Slots : GetProductSelect(r)
    \/ \E r \in Slots, id \in ProductArgs : UpdateProductStart(r, id)
    \/ \E r \in Slots : UpdateProductCheck(r)
    \/ \E r \in Slots : UpdateProductWrite(r)
    \/ \E r \in Slots, id \in ProductArgs : DeleteProductStart(r, id)
    \/ \E r \in Slots : DeleteProductWrite(r)

SpecById == Init /\ [][NextById]_vars

\* The gateway's notifications in server.js: orders are created from
\* well-formed bodies, payments are created and the gateway notifies;
\* requests overlap and the store answers every query.
NextHook ==
    \/ Tick
    \/ \E r \in Slots : CreateOrderStart(r, AllOk, 1, 1, 1)
    \/ \E r \in Slots : CreateOrderInsert(r)
    \/ \E r \in Slots : CreatePaymentStart(r)
    \/ \E r \in Slots : CreatePaymentCheck(r, 1)
    \/ \E r \in Slots : CreatePaymentInsert(r)
    \/ \E r \in Slots, ev \in Events, id \in OrderArgs \cup {NoOrderId},
          txn \in TxnArgs : WebhookStart(r, ev, id, txn)
    \/ \E r \in Slots : WebhookWriteOrder(r)
    \/ \E r \in Slots : WebhookWritePayments(r)

\* The route exists in server.js alone.
InitHook == Init /\ variant = "server"

SpecHook == InitHook /\ [][NextHook]_vars

\* The gateway's notifications within one millisecond, with queries that
\* fail.
NextHookFault ==
    \/ \E r \in Slots : StoreFault(r)
    \/ \E r \in Slots : CreateOrderStart(r, AllOk, 1, 1, 1)
    \/ \E r \in Slots : CreateOrderInsert(r)
    \/ \E r \in Slots : CreatePaymentStart(r)
    \/ \E r \in Slots : CreatePaymentCheck(r, 1)
    \/ \E r \in Slots : CreatePaymentInsert(r)
    \/ \E r \in Slots, ev \in Events, id \in OrderArgs \cup {NoOrderId},
          txn \in TxnArgs : WebhookStart(r, ev, id, txn)
    \/ \E r \in Slots : WebhookWriteOrder(r)
    \/ \E r \in Slots : WebhookWritePayments(r)

SpecHookFault == InitHook /\ [][NextHookFault]_vars

\* The dashboard within one millisecond: orders of any total are created,
\* their status is updated to confirmed or back to pending and the summary
\* is asked for; requests overlap and queries fail.
NextDash ==
    \/ \E r \in Slots : StoreFault(r)
    \/ \E r \in Slots, k \in Rands, amt \in Totals :
          CreateOrderStart(r, AllOk, k, 1, amt)
    \/ \E r \in Slots : CreateOrderInsert(r)
    \/ \E r \in Slots :
          UpdateStatusStart(r) /\ req'[r].status \in {"confirmed", "pending"}
    \/ \E r \in Slots : UpdateStatusWrite(r)
    \/ \E r \in Slots : DashStart(r)
    \/ \E r \in Slots, q \in DashQueries : DashQuery(r, q)

SpecDash == Init /\ [][NextDash]_vars

\* The whole order-payment workflow within one millisecond: an order is
\* created, its status is updated, payments are created and verified and
\* the gateway notifies; requests overlap and queries fail.
NextFlow ==
    \/ \E r \in Slots : StoreFault(r)
    \/ \E r \in Slots : CreateOrderStart(r, AllOk, 1, 1, 1)
    \/ \E r \in Slots : CreateOrderInsert(r)
    \/ \E r \in Slots : UpdateStatusStart(r)
    \/ \E r \in Slots : UpdateStatusWrite(r)
    \/ \E r \in Slots : CreatePaymentStart(r)
    \/ \E r \in Slots : CreatePaymentCheck(r, 1)
    \/ \E r \in Slots : CreatePaymentInsert(r)
    \/ \E r \in Slots : VerifyStart(r)
    \/ \E r \in Slots : VerifyCheck(r)
    \/ \E r \in Slots : VerifyWriteOrder(r)
    \/ \E r \in Slots : VerifyWritePayments(r)
    \/ \E r \in Slots : VerifyRead(r)
    \/ \E r \in Slots, ev \in Events, id \in OrderArgs \cup {NoOrderId},
          txn \in TxnArgs : WebhookStart(r, ev, id, txn)
    \/ \E r \in Slots : WebhookWriteOrder(r)
    \/ \E r \in Slots : WebhookWritePayments(r)

SpecFlow == Init /\ [][NextFlow]_vars

\* The catalog: products are created, deleted and, in part_001, the sample
\* products added again.
NextCatalog ==
    \/ \E r \in Slots : StoreFault(r)
    \/ \E r \in Slots, in \in ProductInputs : CreateProductStart(r, in)
    \/ \E r \in Slots : CreateProductInsert(r)
    \/ \E r \in Slots, id \in ProductArgs : DeleteProductStart(r, id)
    \/ \E r \in Slots : DeleteProductWrite(r)
    \/ \E r \in Slots : TestProductsStart(r)
    \/ \E r \in Slots : TestProductsCount(r)
    \/ \E r \in Slots : TestProductsInsert(r)

SpecCatalog == Init /\ [][NextCatalog]_vars

\* The administrator-gated iterations with the check followed: every
\* gated request goes through authenticateAdmin and its handler begins
\* only from there.  Nobody logs in, and the token sent is none, the one in
\* the store or another.  The rows there are, are the products created.
NextGate ==
    \/ \E r \in Slots : StoreFault(r)
    \/ \E r \in Slots, k \in GatedKinds, tok \in NoToken..(AdminId + 1) :
          GateStart(r, k, tok)
    \/ \E r \in Slots : AuthDeny(r)
    \/ \E r \in Slots : req[r].pc = "auth" /\ UpdateStatusStart(r)
    \/ \E r \in Slots : UpdateStatusWrite(r)
    \/ \E r \in Slots : req[r].pc = "auth" /\ GetOrderStart(r)
    \/ \E r \in Slots : GetOrderSelect(r)
    \/ \E r \in Slots, id \in ProductArgs :
          req[r].pc = "auth" /\ UpdateProductStart(r, id)
    \/ \E r \in Slots : UpdateProductWrite(r)
    \/ \E r \in Slots, id \in ProductArgs :
          req[r].pc = "auth" /\ DeleteProductStart(r, id)
    \/ \E r \in Slots : DeleteProductWrite(r)
    \/ \E r \in Slots : req[r].pc = "auth" /\ DashStart(r)
    \/ \E r \in Slots :
          req[r].pc = "auth" /\ CreateProductStart(r, ProductOk)
    \/ \E r \in Slots : CreateProductInsert(r)
    \/ \E r \in Slots, q \in DashQueries : DashQuery(r, q)

InitGate == Init /\ variant # "part_001"

SpecGate == InitGate /\ [][NextGate]_vars

\* Logins beside gated requests: orders are created, administrators log in
\* and GET /api/orders/:id is asked for with any of the tokens.
NextLogin ==
    \/ \E r \in Slots : StoreFault(r)
    \/ \E r \in Slots : CreateOrderStart(r, AllOk, 1, 1, 1)
    \/ \E r \in Slots : CreateOrderInsert(r)
    \/ \E r \in Slots, tok \in TokenArgs : GateStart(r, "getOrder", tok)
    \/ \E r \in Slots : AuthDeny(r)
    \/ \E r \in Slots, cred \in Credentials : LoginStart(r, cred)
    \/ \E r \in Slots : LoginSelect(r)
    \/ \E r \in Slots : LoginUpdate(r)
    \/ \E r \in Slots : req[r].pc = "auth" /\ GetOrderStart(r)
    \/ \E r \in Slots : GetOrderSelect(r)

SpecLogin == InitGate /\ [][NextLogin]_vars

----------------------------------------------------------------------------
\* The claims.

\* The step is one of request r's handler.
StepOf(r) == req'[r] # req[r]

\* Request r is a verification being handled.
Verifying(r) == req[r].kind = "verify" /\ ~Free(r)

\* An order row but for its update timestamp.
Content(row) ==
    [status |-> row.status, payment_verified |-> row.payment_verified,
     transaction_id |-> row.transaction_id,
     estimated_delivery |-> row.estimated_delivery, total |-> row.total]

\* C1: a verify payment request that ends in a store failure at its second
\* write has changed no row: no partial update is left behind.
C1_NoPartialUpdate ==
    \A r \in Slots :
        (/\ req[r].kind = "verify" /\ req[r].pc = "done"
         /\ req[r].code = 500
         /\ req[r].faultAt = VerifySecondWrite(variant))
        => req[r].wrote = {}

\* C2: while a verification of order o is being handled, never is o marked
\* payment-verified by it with a payment that referenced o when it began
\* still pending, nor such a payment marked completed by it with o still
\* unverified.
C2_DualWriteAtomic ==
    \A r \in Slots :
        Verifying(r) =>
            LET o == req[r].orderId
            IN  /\ ~(/\ "orders" \in req[r].wrote
                     /\ \E p \in req[r].pays0 : payments[p].status = "pending")
                /\ ~(/\ "payments" \in req[r].wrote
                     /\ o \in DOMAIN orders
                     /\ ~orders[o].payment_verified)

\* C3: when the second write of a verification of a stored order o
\* completes, o is payment-verified and confirmed and every payment
\* referencing o is completed with a verification timestamp.
C3_VerifyResult ==
    [][\A r \in Slots :
          (/\ Verifying(r)
           /\ req[r].pc = VerifySecondWrite(variant)
           /\ req[r].orderId \in DOMAIN orders
           /\ StepOf(r)
           /\ req'[r].code # 500)
          => LET o == req[r].orderId
             IN  /\ orders'[o].payment_verified
                 /\ orders'[o].status = "confirmed"
                 /\ \A p \in PaymentsOf(payments', o) :
                       /\ payments'[p].status = "completed"
                       /\ payments'[p].verified_at # Null]_vars

\* C4: a verification whose predicate decides failure ends at once with the
\* failure response 400, and the step changes no order and no payment row.
C4_DeclineChangesNothing ==
    [][\A r \in Slots :
          (StepOf(r) /\ req'[r].kind = "verify" /\ ~req'[r].verdict)
          => /\ req'[r].pc = "done"
             /\ req'[r].code = 400
             /\ orders' = orders
             /\ payments' = payments]_vars

\* C4 witness: a verification was declined while an order and a payment of
\* it are stored and the order is still unverified.
C4_Witness ==
    \E r \in Slots :
        /\ req[r].kind = "verify" /\ req[r].pc = "done"
        /\ ~req[r].verdict /\ req[r].code = 400
        /\ \E p \in DOMAIN payments :
              /\ payments[p].status = "pending"
              /\ ~orders[payments[p].order_id].payment_verified

\* C5: a verification that begins on an order a successful verification has
\* left verified changes neither the content of the order row nor any
\* completed payment of the order (its status and verification timestamp
\* stay): no payment goes through a second transition.
C5_VerifyIdempotent ==
    [][\A r \in Slots :
          (Verifying(r) /\ req[r].again /\ StepOf(r))
          => LET o == req[r].orderId
             IN  /\ Content(orders'[o]) = Content(orders[o])
                 /\ \A p \in PaymentsOf(payments, o) :
                       payments[p].status = "completed"
                       => payments'[p] = payments[p]]_vars

\* C6: of two verifications of the same order that are handled at the same
\* time, at most one updates rows: once one has, no step of the other
\* changes the content of the order or a payment.
C6_VerifySerialized ==
    [][\A r1, r2 \in Slots :
          (/\ r1 # r2
           /\ Verifying(r1) /\ Verifying(r2)
           /\ req[r1].orderId = req[r2].orderId
           /\ req[r1].orderId \in DOMAIN orders
           /\ req[r1].wrote # {}
           /\ StepOf(r2))
          => /\ Content(orders'[req[r2].orderId])
                = Content(orders[req[r2].orderId])
             /\ payments' = payments]_vars

\* C7: a step that adds an order row is the INSERT of a create order
\* request that answers 201; the row has status pending, payment-verified
\* false and estimated-delivery NULL, and no other order, no payment and no
\* product changes.  A create order request answers 201 only in such a step.
C7_CreatedOrderIsPending ==
    [][/\ \A id \in DOMAIN orders' \ DOMAIN orders :
             /\ orders'[id].status = "pending"
             /\ ~orders'[id].payment_verified
             /\ orders'[id].estimated_delivery = Null
             /\ \A x \in DOMAIN orders : orders'[x] = orders[x]
             /\ \E r \in Slots : /\ req[r].kind = "createOrder"
                                 /\ req[r].orderId = id
                                 /\ req'[r].code = 201
       /\ \A r \in Slots :
             (StepOf(r) /\ req'[r].kind = "createOrder" /\ req'[r].code = 201)
             => /\ DOMAIN orders' = DOMAIN orders \cup {req[r].orderId}
                /\ req[r].orderId \notin DOMAIN orders
                /\ payments' = payments
                /\ products' = products]_vars

\* C7 witness: a create order request has answered 201 and a pending order
\* stands beside a stored payment.
C7_Witness ==
    /\ \E r \in Slots : /\ req[r].kind = "createOrder"
                        /\ req[r].pc = "done" /\ req[r].code = 201
    /\ \E id \in DOMAIN orders : orders[id].status = "pending"
    /\ DOMAIN payments # {}

\* C8: a create order request with a well-formed body fails only if a query
\* of the store fails, and no two requests being handled hold the same
\* order id: every request yields an id of its own.
C8_UniqueOrderIds ==
    /\ \A r \in Slots :
          (/\ req[r].kind = "createOrder" /\ req[r].pc = "done"
           /\ req[r].input = AllOk)
          => \/ req[r].code = 201
             \/ req[r].code = 500 /\ req[r].faultAt = "co_insert"
    /\ \A r1, r2 \in Slots :
          (/\ r1 # r2
           /\ req[r1].kind = "createOrder" /\ req[r1].pc = "co_insert"
           /\ req[r2].kind = "createOrder" /\ req[r2].pc = "co_insert")
          => req[r1].orderId # req[r2].orderId

\* The six fields the order ledger requires.
SixFields == OrderFields \ {"subtotal", "deliveryFee"}

\* C9: a create order request with one of the six required fields missing
\* ends with 400 before any query and persists nothing; one with all six
\* present and truthy is not answered 400.
C9_OrderValidation ==
    \A r \in Slots :
        req[r].kind = "createOrder" =>
            /\ (\E f \in SixFields : req[r].input[f] = "missing")
               => (req[r].pc = "done" /\ req[r].code = 400
                   /\ req[r].wrote = {})
            /\ (\A f \in SixFields : req[r].input[f] = "ok")
               => req[r].code # 400

\* C10: update status with a value outside the enumeration ends with 400
\* before any query, and every stored order's status is one of the four.
C10_StatusEnumeration ==
    /\ \A r \in Slots :
          (req[r].kind = "updateStatus" /\ req[r].status \notin ValidStatuses)
          => (req[r].pc = "done" /\ req[r].code = 400 /\ req[r].wrote = {})
    /\ \A id \in DOMAIN orders : orders[id].status \in ValidStatuses

\* Request r is an update status request at its UPDATE, for a stored order,
\* and the step is the UPDATE going through.
StatusWritten(r) ==
    /\ req[r].kind = "updateStatus" /\ req[r].pc = "us_update"
    /\ req[r].orderId \in DOMAIN orders
    /\ StepOf(r)
    /\ req'[r].code # 500

\* C11 (as stated): update status to a value other than confirmed leaves
\* the estimated-delivery of the order as it was before the request.
C11_EstimateUntouched ==
    [][\A r \in Slots :
          (StatusWritten(r) /\ req[r].status # "confirmed")
          => orders'[req[r].orderId].estimated_delivery
                = orders[req[r].orderId].estimated_delivery]_vars

\* C11 (amended): update status to a value other than confirmed sets the
\* estimated-delivery of the order to NULL, whatever it was before, and
\* changes no other order.
C11_OtherStatusClearsEstimate ==
    [][\A r \in Slots :
          (StatusWritten(r) /\ req[r].status # "confirmed")
          => /\ orders'[req[r].orderId].estimated_delivery = Null
             /\ \A x \in DOMAIN orders \ {req[r].orderId} :
                   orders'[x] = orders[x]]_vars

\* C11 witness: the one stored order was confirmed and then cancelled, and
\* its estimated-delivery is NULL.
C11_Witness ==
    /\ \E id \in DOMAIN orders :
          /\ DOMAIN orders = {id}
          /\ orders[id].status = "cancelled"
          /\ orders[id].estimated_delivery = Null
    /\ \E r1, r2 \in Slots :
          /\ req[r1].kind = "updateStatus" /\ req[r1].pc = "done"
          /\ req[r1].status = "confirmed" /\ req[r1].code = 200
          /\ req[r2].kind = "updateStatus" /\ req[r2].pc = "done"
          /\ req[r2].status = "cancelled" /\ req[r2].code = 200

\* C12: update status to confirmed computes the estimated-delivery as the
\* time of the request plus 45 minutes, and its UPDATE stores that value and
\* the status confirmed in the order, whatever the order held before.
C12_ConfirmedSetsEstimate ==
    [][\A r \in Slots :
          /\ (/\ StepOf(r) /\ Free(r)
               /\ req'[r].kind = "updateStatus" /\ req'[r].status = "confirmed")
              => /\ req'[r].pc = "us_update"
                 /\ req'[r].est = now + 45 * 60 * 1000
          /\ (StatusWritten(r) /\ req[r].status = "confirmed")
              => /\ orders'[req[r].orderId].estimated_delivery = req[r].est
                 /\ orders'[req[r].orderId].estimated_delivery
                       \in {t + 45 * 60 * 1000 : t \in 1..now}
                 /\ orders'[req[r].orderId].status = "confirmed"]_vars

\* C12 witness: an order that was confirmed at time 1 is confirmed again at
\* time 2 and holds the later estimate.
C12_Witness ==
    /\ now = 2
    /\ \E id \in DOMAIN orders :
          /\ orders[id].status = "confirmed"
          /\ orders[id].estimated_delivery = 2 + 45 * 60 * 1000
          /\ orders[id].updated_at = 2
    /\ \A r \in Slots :
          /\ req[r].kind = "updateStatus" /\ req[r].pc = "done"
          /\ req[r].status = "confirmed" /\ req[r].code = 200

\* C13: update status with a value of the enumeration is never refused,
\* and its UPDATE of a stored order answers 200 and leaves the order in that
\* status, whatever status the order was in.
C13_AnyStatusFollowsAny ==
    [][\A r \in Slots :
          /\ (/\ StepOf(r) /\ Free(r)
               /\ req'[r].kind = "updateStatus"
               /\ req'[r].status \in ValidStatuses)
              => req'[r].pc = "us_update"
          /\ (StatusWritten(r) /\ req[r].status \in ValidStatuses)
              => /\ req'[r].code = 200
                 /\ orders'[req[r].orderId].status = req[r].status]_vars

\* C13 witness: the one stored order was moved to delivered and back to
\* pending.
C13_Witness ==
    /\ \E id \in DOMAIN orders :
          DOMAIN orders = {id} /\ orders[id].status = "pending"
    /\ \E r1, r2 \in Slots :
          /\ req[r1].kind = "updateStatus" /\ req[r1].pc = "done"
          /\ req[r1].status = "delivered" /\ req[r1].code = 200
          /\ req[r2].kind = "updateStatus" /\ req[r2].pc = "done"
          /\ req[r2].status = "pending" /\ req[r2].code = 200

\* C14: create payment for an order id that is not stored answers 404 at
\* its SELECT and changes no row; for a stored order id its INSERT answers
\* 200, adds exactly one payment row, which references that order and is
\* pending, and changes no other payment and no order.
C14_CreatePayment ==
    [][\A r \in Slots :
          (/\ req[r].kind = "createPayment" /\ ~Free(r)
           /\ StepOf(r)
           /\ req'[r].code # 500)
          => LET o == req[r].orderId
             IN  /\ o \notin DOMAIN orders
                    => /\ req'[r].pc = "done" /\ req'[r].code = 404
                       /\ payments' = payments /\ orders' = orders
                 /\ (o \in DOMAIN orders /\ req'[r].pc = "done")
                    => /\ req'[r].code = 200
                       /\ orders' = orders
                       /\ \E p \in DOMAIN payments' \ DOMAIN payments :
                             /\ DOMAIN payments' = DOMAIN payments \cup {p}
                             /\ payments'[p].order_id = o
                             /\ payments'[p].status = "pending"
                       /\ \A q \in DOMAIN payments :
                             payments'[q] = payments[q]
                 /\ (o \in DOMAIN orders /\ req'[r].pc # "done")
                    => payments' = payments /\ orders' = orders]_vars

\* C14 witness: one create payment request was answered 404, another 200,
\* and the payment of the latter is stored, pending, beside its order.
C14_Witness ==
    /\ \E r1, r2 \in Slots :
          /\ req[r1].kind = "createPayment" /\ req[r1].pc = "done"
          /\ req[r1].code = 404 /\ req[r1].wrote = {}
          /\ req[r2].kind = "createPayment" /\ req[r2].pc = "done"
          /\ req[r2].code = 200 /\ req[r2].wrote = {"payments"}
    /\ \E p \in DOMAIN payments :
          /\ DOMAIN payments = {p}
          /\ payments[p].status = "pending"
          /\ payments[p].order_id \in DOMAIN orders

\* The operations by id, the position of the first query of each and
\* whether the id of request r is stored.
ByIdKinds ==
    {"getProduct", "updateProduct", "deleteProduct", "getOrder",
     "updateStatus"}

ByIdFirstPcs ==
    {"gp_select", UpdateProductFirstPc(variant), "dp_delete", "go_select",
     "us_update"}

IdAbsent(r) ==
    IF req[r].kind \in {"getOrder", "updateStatus"}
    THEN req[r].orderId \notin DOMAIN orders
    ELSE req[r].productId \notin DOMAIN products

\* C15 (as stated): every update status request made while no order is
\* stored, a value outside the enumeration as its status included, is
\* answered 404 unless a query of the store fails.
C15_AbsentIdAlways404 ==
    [][\A r \in Slots :
          (/\ StepOf(r)
           /\ DOMAIN orders = {}
           /\ req'[r].kind = "updateStatus" /\ req'[r].pc = "done"
           /\ req'[r].code # 500)
          => req'[r].code = 404]_vars

\* C15 (amended): the first query of a get product, update product, delete
\* product, get order or update status request whose id is not stored ends
\* the request with 404 and changes no row; get order in part_001, which
\* has no such route, is answered 404 at once; update status reaches its
\* query only with a status the iteration accepts.
C15_AbsentIdIs404 ==
    [][\A r \in Slots :
          /\ (/\ req[r].kind \in ByIdKinds
               /\ req[r].pc \in ByIdFirstPcs
               /\ IdAbsent(r)
               /\ StepOf(r)
               /\ req'[r].code # 500)
              => /\ req'[r].pc = "done"
                 /\ req'[r].code = 404
                 /\ orders' = orders
                 /\ payments' = payments
                 /\ products' = products
          /\ (/\ StepOf(r) /\ Free(r)
               /\ req'[r].kind \in ByIdKinds)
              => \/ req'[r].pc \in ByIdFirstPcs
                 \/ /\ req'[r].kind = "getOrder" /\ variant = "part_001"
                    /\ req'[r].pc = "done" /\ req'[r].code = 404
                 \/ /\ req'[r].kind = "updateStatus"
                    /\ req'[r].status \notin ValidStatuses
                    /\ variant # "server"
                    /\ req'[r].pc = "done" /\ req'[r].code = 400]_vars

\* C15 witness: with no order stored, a delete product request and an
\* update status request with a status of the enumeration were both
\* answered 404 and changed nothing.
C15_Witness ==
    /\ DOMAIN orders = {}
    /\ \E r1, r2 \in Slots :
          /\ req[r1].kind = "deleteProduct" /\ req[r1].pc = "done"
          /\ req[r1].code = 404 /\ req[r1].wrote = {}
          /\ req[r2].kind = "updateStatus" /\ req[r2].pc = "done"
          /\ req[r2].status \in ValidStatuses
          /\ req[r2].code = 404 /\ req[r2].wrote = {}

\* Request r is a notification being applied.
Notifying(r) == req[r].kind = "webhook" /\ ~Free(r)

\* C16: when the second write of a completed-payment notification for a
\* stored order o is done, o is payment-verified and confirmed and every
\* payment that referenced o when the notification arrived is completed
\* with the gateway's payload stored, as verify payment would leave them.
C16_WebhookAsVerify ==
    [][\A r \in Slots :
          (/\ Notifying(r) /\ req[r].pc = "w_pay"
           /\ req[r].orderId \in DOMAIN orders
           /\ StepOf(r)
           /\ req'[r].code # 500)
          => LET o == req[r].orderId
             IN  /\ orders'[o].payment_verified
                 /\ orders'[o].status = "confirmed"
                 /\ \A p \in req[r].pays0 :
                       /\ payments'[p].status = "completed"
                       /\ payments'[p].lipiana_response # NoPayload]_vars

\* C17: a notification of another event than a completed payment, or
\* without an order id, is acknowledged in the step it arrives in, and that
\* step changes no order and no payment.
C17_OtherNotificationChangesNothing ==
    [][\A r \in Slots :
          (/\ StepOf(r) /\ Free(r)
           /\ req'[r].kind = "webhook"
           /\ \/ req'[r].event # "payment.completed"
              \/ req'[r].orderId = NoOrderId)
          => /\ req'[r].pc = "done"
             /\ req'[r].code = 200
             /\ req'[r].wrote = {}
             /\ orders' = orders
             /\ payments' = payments]_vars

\* C17 witness: a failed-payment notification for a stored order and a
\* completed-payment notification without an order id were acknowledged;
\* the order is still unverified and its payment pending.
C17_Witness ==
    /\ \E r1, r2 \in Slots :
          /\ req[r1].kind = "webhook" /\ req[r1].pc = "done"
          /\ req[r1].event = "payment.failed"
          /\ req[r1].orderId \in DOMAIN orders
          /\ ~orders[req[r1].orderId].payment_verified
          /\ \E p \in PaymentsOf(payments, req[r1].orderId) :
                payments[p].status = "pending"
          /\ req[r2].kind = "webhook" /\ req[r2].pc = "done"
          /\ req[r2].event = "payment.completed"
          /\ req[r2].orderId = NoOrderId

\* C18: a notification that is applied is acknowledged with 200 only in
\* the step of its second write, the update of the payments, when the
\* order it names is marked paid and the payments of its transaction are
\* completed; a query of it that fails ends it with 500.
C18_AckAfterBothWrites ==
    [][\A r \in Slots :
          (Notifying(r) /\ StepOf(r))
          => /\ req'[r].code \in {0, 200, 500}
             /\ req'[r].faultAt # "" => req'[r].code = 500
             /\ req'[r].code = 200
                => /\ req[r].pc = "w_pay"
                   /\ LET o == req[r].orderId
                      IN  o \in DOMAIN orders
                          => /\ orders'[o].payment_verified
                             /\ \A p \in PaymentsOf(payments', o) :
                                   payments'[p].transaction_id = req[r].txn
                                   => /\ payments'[p].status = "completed"
                                      /\ payments'[p].lipiana_response
                                            # NoPayload]_vars

\* C18 witness: one notification ended with 500 at its update of the
\* payments, after it had marked the order; another one was acknowledged
\* after it had completed a payment.
C18_Witness ==
    /\ \E r1, r2 \in Slots :
          /\ req[r1].kind = "webhook" /\ req[r1].pc = "done"
          /\ req[r1].code = 500 /\ req[r1].faultAt = "w_pay"
          /\ req[r1].wrote = {"orders"}
          /\ req[r2].kind = "webhook" /\ req[r2].pc = "done"
          /\ req[r2].code = 200 /\ "payments" \in req[r2].wrote
    /\ \E p \in DOMAIN payments :
          /\ payments[p].status = "completed"
          /\ orders[payments[p].order_id].payment_verified

\* C19: a notification that arrives when its order and payment stand as a
\* delivery of the same notification has left them, and that is applied
\* while no other request is being handled, changes neither the content of
\* the order row nor any payment of the order.
C19_DuplicateDelivery ==
    [][\A r \in Slots :
          (/\ Notifying(r) /\ req[r].again /\ StepOf(r)
           /\ \A s \in Slots \ {r} : Free(s))
          => LET o == req[r].orderId
             IN  /\ Content(orders'[o]) = Content(orders[o])
                 /\ \A p \in PaymentsOf(payments, o) :
                       payments'[p] = payments[p]]_vars

\* The sum of the totals of the orders ids.
RECURSIVE TotalOf(_)
TotalOf(ids) ==
    IF ids = {}
    THEN 0
    ELSE LET x == CHOOSE y \in ids : TRUE
         IN  orders[x].total + TotalOf(ids \ {x})

\* The orders that count as revenue.
Earning == {x \in DOMAIN orders : orders[x].status \in {"confirmed", "delivered"}}

C26_VerifyUnknownOrder ==
    [][\A r \in Slots :
          (/\ Verifying(r)
           /\ req[r].orderId \notin DOMAIN orders
           /\ StepOf(r))
          => /\ orders' = orders
             /\ payments' = payments
             /\ req'[r].pc = "done" => req'[r].code \in {404, 500}]_vars

\* C29: in the summary a dashboard request sends, the count of pending
\* orders does not exceed the count of all orders.
C29_DashboardSnapshot ==
    \A r \in Slots :
        (req[r].kind = "dashboard" /\ req[r].pc = "done" /\ req[r].code = 200)
        => req[r].stats["pendingOrders"] <= req[r].stats["totalOrders"]

\* C30: an update product request answers 200 only in a step whose UPDATE
\* found the product row.
C30_UpdateRacesDelete ==
    [][\A r \in Slots :
          (/\ req[r].kind = "updateProduct" /\ req[r].pc = "up_update"
           /\ StepOf(r)
           /\ req'[r].code = 200)
          => req[r].productId \in DOMAIN products]_vars

\* C25: no step of a verification or of a notification changes the status
\* of an order that is delivered or cancelled.
C25_VerifyOnlyFromPending ==
    [][\A r \in Slots :
          ((Verifying(r) \/ Notifying(r)) /\ StepOf(r))
          => \A o \in DOMAIN orders :
                orders[o].status \in {"delivered", "cancelled"}
                => orders'[o].status = orders[o].status]_vars

\* C27: no step takes the payment-verified flag from an order that has it
\* or takes a completed payment out of completed, and no order and no
\* payment is removed.
C27_VerificationNeverUndone ==
    [][/\ \A o \in DOMAIN orders :
             /\ o \in DOMAIN orders'
             /\ orders[o].payment_verified => orders'[o].payment_verified
       /\ \A p \in DOMAIN payments :
             /\ p \in DOMAIN payments'
             /\ payments[p].status = "completed"
                => payments'[p].status = "completed"]_vars

\* C27 witness: an order that was verified has since been cancelled by an
\* update status request; it still is payment-verified and its payment
\* completed.
C27_Witness ==
    /\ \E o \in DOMAIN orders :
          /\ orders[o].payment_verified
          /\ orders[o].status = "cancelled"
          /\ \E p \in PaymentsOf(payments, o) :
                payments[p].status = "completed"
    /\ \E r \in Slots :
          /\ req[r].kind = "updateStatus" /\ req[r].pc = "done"
          /\ req[r].status = "cancelled" /\ req[r].code = 200

\* C28: every stored order whose estimated-delivery is not NULL has the
\* status confirmed.
C28_EstimateOnlyWhenConfirmed ==
    \A o \in DOMAIN orders :
        orders[o].estimated_delivery # Null => orders[o].status = "confirmed"

\* C28 witness: the order was cancelled and then confirmed by update status
\* requests and verified; it holds an estimated-delivery.
C28_Witness ==
    /\ \E o \in DOMAIN orders :
          /\ orders[o].estimated_delivery # Null
          /\ orders[o].payment_verified
    /\ \E r1, r2 \in Slots :
          /\ req[r1].kind = "updateStatus" /\ req[r1].pc = "done"
          /\ req[r1].status = "cancelled" /\ req[r1].code = 200
          /\ req[r2].kind = "updateStatus" /\ req[r2].pc = "done"
          /\ req[r2].status = "confirmed" /\ req[r2].code = 200

\* The tokens the token store holds: the ids of the administrators in
\* server.js, their token column in part_000.
TokenStore ==
    {IF variant = "server" THEN admin_users.id ELSE admin_users.token}

\* The step is one of request r's handler, told by its position, its token
\* and its response.
Acts(r) ==
    \/ req'[r].pc # req[r].pc \/ req'[r].kind # req[r].kind
    \/ req'[r].code # req[r].code \/ req'[r].tok # req[r].tok

\* Request r ends here with the response code and without having written a
\* row or been given a figure.
Refused(r, code) ==
    /\ req'[r].pc = "done" /\ req'[r].code = code
    /\ req'[r].wrote = {} /\ req'[r].stats = NoStats
    /\ orders' = orders /\ payments' = payments /\ products' = products
    /\ admin_users' = admin_users

\* C22: a request to a gated operation without a token is answered 401 on
\* arrival; one whose token is not in the token store is answered 403 when
\* the gate's query is answered (500 when that query fails); neither
\* changes a row or is given one.
C22_GateRefuses ==
    [][\A r \in Slots :
          /\ (/\ Free(r) /\ Acts(r)
              /\ req'[r].kind \in GatedKinds /\ req'[r].tok = NoToken)
             => Refused(r, 401)
          /\ (/\ req[r].pc = "auth" /\ Acts(r)
              /\ req[r].tok \notin TokenStore)
             => \/ Refused(r, 403) /\ req'[r].faultAt = ""
                \/ Refused(r, 500) /\ req'[r].faultAt = "auth"]_vars

\* C22 witness: with a product in the store, one gated request has been
\* answered 401 and another 403.
C22_Witness ==
    /\ DOMAIN products # {}
    /\ \E r1, r2 \in Slots :
          /\ req[r1].kind \in GatedKinds /\ req[r1].pc = "done"
          /\ req[r1].code = 401 /\ req[r1].tok = NoToken
          /\ req[r2].kind \in GatedKinds /\ req[r2].pc = "done"
          /\ req[r2].code = 403 /\ req[r2].tok \notin TokenStore

\* C23: a gated request that carries the token some successful login was
\* answered with is not refused by the gate.
C23_TokenNeverExpires ==
    [][\A r \in Slots :
          (/\ req[r].pc = "auth" /\ Acts(r)
           /\ \E s \in Slots :
                 /\ req[s].kind = "login" /\ req[s].pc = "done"
                 /\ req[s].code = 200 /\ req[s].tok = req[r].tok)
          => ~(req'[r].pc = "done" /\ req'[r].code = 403)]_vars

\* C21: a create product request whose body lacks one of the five required
\* fields ends with 400 and no product row changed; any other ends with
\* 201 or 500, and with 201 the row stored under its id holds available as
\* sent, true when it was omitted, and images as sent, empty when omitted.
C21_CreateProduct ==
    [][\A r \in Slots :
          (/\ Acts(r)
           /\ req'[r].kind = "createProduct" /\ req'[r].pc = "done")
          => LET in == req'[r].input
                 id == req[r].productId
             IN  IF \E f \in ProductFields : in[f] = "missing"
                 THEN req'[r].code = 400 /\ products' = products
                 ELSE /\ req'[r].code \in {201, 500}
                      /\ req'[r].code = 201
                         => /\ id \in DOMAIN products'
                            /\ products'[id].available =
                                  IF in["available"] = "missing"
                                  THEN "true" ELSE in["available"]
                            /\ products'[id].images =
                                  IF in["images"] = "missing"
                                  THEN "empty" ELSE in["images"]]_vars

\* C24: a request whose query was rejected by the store is answered 500.
C24_FaultIs500 ==
    [][\A r \in Slots :
          (/\ req[r].pc \in QueryPcs /\ Acts(r)
           /\ req'[r].pc = "done" /\ req'[r].faultAt = req[r].pc)
          => req'[r].code = 500]_vars
====
